---- MODULE Spec2Model ----
(***************************************************************************)
(* Model of src/botospere.py: a Telegram CTF flag bot.  Handlers are       *)
(* registered in one dispatch group (main), four MongoDB collections hold  *)
(* the records, and context.user_data holds each user's working context.   *)
(*                                                                         *)
(* Text is modelled as a sequence of one-character strings, so that strip, *)
(* lstrip, split, join and int are the conversions the code performs.      *)
(***************************************************************************)
EXTENDS Integers, Sequences, FiniteSets, TLC

(***************************************************************************)
(* Bounds of the model.                                                    *)
(***************************************************************************)
\* number of flag texts that get a Submission row in one behaviour
MaxSubmissions == 2

(***************************************************************************)
(* Python values.                                                          *)
(***************************************************************************)
\* ITEMS_PER_PAGE
ITEMS_PER_PAGE == 10

\* Python's None: a tuple no text equals (texts hold one-character strings)
None == <<"None">>

Whitespace == {" ", "\n"}

RECURSIVE LStrip(_)
\* str.lstrip(): drop leading whitespace
LStrip(s) ==
    IF s # <<>> /\ Head(s) \in Whitespace THEN LStrip(Tail(s)) ELSE s

RECURSIVE RStrip(_)
\* str.rstrip(): drop trailing whitespace
RStrip(s) ==
    IF s # <<>> /\ s[Len(s)] \in Whitespace
    THEN RStrip(SubSeq(s, 1, Len(s) - 1))
    ELSE s

\* str.strip()
Strip(s) == RStrip(LStrip(s))

RECURSIVE LStripChar(_, _)
\* str.lstrip(ch): drop every leading ch
LStripChar(s, ch) ==
    IF s # <<>> /\ Head(s) = ch THEN LStripChar(Tail(s), ch) ELSE s

RECURSIVE Join(_, _)
\* sep.join(parts)
Join(sep, parts) ==
    IF parts = <<>> THEN <<>>
    ELSE IF Len(parts) = 1 THEN parts[1]
    ELSE parts[1] \o sep \o Join(sep, Tail(parts))

\* position of the first ch in s, 0 when there is none
IndexOf(s, ch) ==
    IF \E i \in 1..Len(s) : s[i] = ch
    THEN CHOOSE i \in 1..Len(s) : s[i] = ch /\ \A j \in 1..(i - 1) : s[j] # ch
    ELSE 0

\* s.split(":", 1)[1]: what follows the first colon
AfterColon(s) == SubSeq(s, IndexOf(s, ":") + 1, Len(s))

Digits == {"0", "1", "2", "3", "4", "5", "6", "7", "8", "9"}

DigitVal(ch) ==
    CASE ch = "0" -> 0 [] ch = "1" -> 1 [] ch = "2" -> 2 [] ch = "3" -> 3
      [] ch = "4" -> 4 [] ch = "5" -> 5 [] ch = "6" -> 6 [] ch = "7" -> 7
      [] ch = "8" -> 8 [] ch = "9" -> 9

AllDigits(s) == s # <<>> /\ \A i \in 1..Len(s) : s[i] \in Digits

\* whether int(s) succeeds (sign and decimal digits, whitespace around them)
IsInt(s) ==
    LET t == Strip(s) IN
    IF t # <<>> /\ Head(t) \in {"-", "+"} THEN AllDigits(Tail(t)) ELSE AllDigits(t)

RECURSIVE DigitsVal(_)
DigitsVal(s) ==
    IF s = <<>> THEN 0
    ELSE 10 * DigitsVal(SubSeq(s, 1, Len(s) - 1)) + DigitVal(s[Len(s)])

\* int(s), for a text that IsInt accepts
IntOf(s) ==
    LET t == Strip(s) IN
    IF Head(t) = "-" THEN 0 - DigitsVal(Tail(t))
    ELSE IF Head(t) = "+" THEN DigitsVal(Tail(t))
    ELSE DigitsVal(t)

\* dict.get(key): None when the key is absent
Get(d, key) == IF key \in DOMAIN d THEN d[key] ELSE None

\* d[key] = value on a dict
Put(d, key, value) == [k \in DOMAIN d \cup {key} |-> IF k = key THEN value ELSE d[k]]

RECURSIVE Split(_, _, _)
\* s.split(sep, maxsplit)
Split(s, sep, maxsplit) ==
    IF maxsplit = 0 \/ ~(\E i \in 1..Len(s) : s[i] = sep) THEN <<s>>
    ELSE <<SubSeq(s, 1, IndexOf(s, sep) - 1)>>
         \o Split(SubSeq(s, IndexOf(s, sep) + 1, Len(s)), sep, maxsplit - 1)

\* the decimal digits of a natural number below 100, as str() writes it
Str(n) ==
    LET digit(k) == CHOOSE ch \in Digits : DigitVal(ch) = k IN
    IF n < 10 THEN <<digit(n)>> ELSE <<digit(n \div 10), digit(n % 10)>>

\* html.escape of one character
EscapeChar(ch) ==
    CASE ch = "&" -> <<"&", "a", "m", "p", ";">>
      [] ch = "<" -> <<"&", "l", "t", ";">>
      [] ch = ">" -> <<"&", "g", "t", ";">>
      [] OTHER -> <<ch>>

RECURSIVE HtmlEscape(_)
\* html.escape(s), for texts without quotes
HtmlEscape(s) == IF s = <<>> THEN <<>> ELSE EscapeChar(Head(s)) \o HtmlEscape(Tail(s))

\* the characters of the modelled texts in code-point order
CodePoints ==
    <<"\n", " ", "&", "+", "-", ".", "0", "1", "2", "3", "4", "5", "6", "7", "8",
      "9", ":", "<", ">", "@", "F", "U", "_", "a", "b", "d", "e", "f", "g", "i",
      "k", "l", "m", "n", "o", "p", "s", "t", "u", "v", "w", "x">>

\* ord(ch), up to an order-preserving renumbering
Ord(ch) == CHOOSE i \in 1..Len(CodePoints) : CodePoints[i] = ch

\* str.lower() of one character
LowerChar(ch) == CASE ch = "F" -> "f" [] ch = "U" -> "u" [] OTHER -> ch

\* s.lower()
Lower(s) == [i \in 1..Len(s) |-> LowerChar(s[i])]

RECURSIVE StrLess(_, _)
\* a < b on str
StrLess(a, b) ==
    IF b = <<>> THEN FALSE
    ELSE IF a = <<>> THEN TRUE
    ELSE IF Head(a) = Head(b) THEN StrLess(Tail(a), Tail(b))
    ELSE Ord(Head(a)) < Ord(Head(b))

\* items[start:end] of a list, with 0-based bounds as Python slices them
Slice(items, start, end) ==
    SubSeq(items, start + 1, IF end < Len(items) THEN end ELSE Len(items))

(***************************************************************************)
(* The world the bot runs in: users, chats, texts.                         *)
(***************************************************************************)
\* Telegram user ids
Users == {1, 2}

Al == <<"a", "l">>

\* update.effective_user.username: user 1 has the handle "al", user 2 has none
Username(u) == IF u = 1 THEN Al ELSE None

\* chat ids: the private chat of user 1 (its id is the user's) and a group
GroupChat == 0 - 100

Chats == {1, GroupChat}

\* who can send messages and press buttons in a chat
Member(u, c) == c = u \/ c = GroupChat

\* challenge names, secrets and links of the store at start-up
Web1 == <<"w", "1">>

Pwn1 == <<"p", "1">>

FlagF == <<"f">>

\* differs from FlagF by case only
FlagG == <<"F">>

LinkL == <<"t", ".", "m", "e">>

\* the Challenge collection the deployment starts with (db.flags is persistent)
InitialFlags ==
    << [_id |-> Web1, flag |-> FlagF, points |-> 10, post_link |-> LinkL],
       [_id |-> Pwn1, flag |-> FlagG, points |-> 20, post_link |-> LinkL] >>

\* plain text messages users send while the submission flow is modelled
FlagTexts == { <<" ", "f", "\n">>, <<"F">> }

\* argument lists of /addnewadmins
AdminArgs == { <<>>, << <<"@", "a", "l">> >> }

\* argument lists of /delete
DeleteArgs == { <<>>, << Web1 >>, << Pwn1 >> }

\* values of the ADMIN_USERNAME environment variable (unset is None)
AdminConfigs == { Al, None }

Unknown == <<"U", "n", "k", "n", "o", "w", "n">>

(***************************************************************************)
(* Conversation states (range(6)) and ConversationHandler.END.             *)
(***************************************************************************)
SELECT_CHALLENGE == 0
WAIT_FLAG == 1
AF_NAME == 2
AF_POINTS == 3
AF_LINK == 4
AF_FLAG == 5
END == -1

VARIABLES
    ADMIN_USERNAME,  \* the configured super-admin handle, or None
    flags,           \* db.flags: sequence of challenge documents
    submissions,     \* db.submissions: sequence of submission documents
    users,           \* db.users: sequence of user documents
    admins,          \* db.admins: set of admin documents
    user_data,       \* context.user_data of every user (a dict per user)
    conv,            \* ConversationHandler state per (chat, user) key
    offered,         \* per chat, the challenge names on /submit buttons
    clock,           \* datetime.utcnow(), as a counter
    reply,           \* the reply the last handler sent
    session,         \* per user, how far an admin is into the authoring dialogue
    buttons          \* per chat, the callback data on the buttons of the other menus

vars == <<ADMIN_USERNAME, flags, submissions, users, admins, user_data, conv,
          offered, clock, reply, session, buttons>>

(***************************************************************************)
(* Collection access (pymongo).                                            *)
(***************************************************************************)
\* the elements of a sequence
Range(s) == {s[i] : i \in 1..Len(s)}

\* coll.find_one({"_id": id}): the set holding the document, or {}
FindById(coll, id) == {d \in Range(coll) : d._id = id}

\* submissions.delete_many({"challenge": name})
DeleteByChallenge(coll, name) == SelectSeq(coll, LAMBDA r : r.challenge # name)

\* flags.delete_one({"_id": name}): _id is unique
DeleteById(coll, name) == SelectSeq(coll, LAMBDA d : d._id # name)

\* [c["_id"] for c in coll.find()]
Ids(coll) == [i \in 1..Len(coll) |-> coll[i]._id]

\* whether the list holds x
InList(x, list) == \E i \in 1..Len(list) : list[i] = x

(***************************************************************************)
(* Helper functions of the bot.                                            *)
(***************************************************************************)
\* is_admin(username)
is_admin(username) ==
    username = ADMIN_USERNAME \/ \E a \in admins : a.username = username

\* add_user_if_not_exists(user_id, username): upsert of the user document
add_user_if_not_exists(coll, user_id, username) ==
    LET name == IF username = None THEN Unknown ELSE username IN
    IF FindById(coll, user_id) # {}
    THEN [i \in 1..Len(coll) |->
            IF coll[i]._id = user_id THEN [coll[i] EXCEPT !.username = name]
            ELSE coll[i]]
    ELSE Append(coll, [_id |-> user_id, username |-> name, points |-> 0])

\* a variant that takes a challenge for solved when anybody solved it; the
\* unsolved-set property C7 tells it from get_unsolved_challenges
get_unsolved_by_anybody(user_id) ==
    LET all_chals == Ids(flags)
        solved == [i \in 1..Len(SelectSeq(submissions, LAMBDA r : r.correct)) |->
                     SelectSeq(submissions, LAMBDA r : r.correct)[i].challenge]
    IN  SelectSeq(all_chals, LAMBDA ch : ~InList(ch, solved))

\* get_unsolved_challenges(user_id): the names in store order
get_unsolved_challenges(user_id) ==
    LET all_chals == Ids(flags)
        solved == [i \in 1..Len(SelectSeq(submissions,
                        LAMBDA r : r.user_id = user_id /\ r.correct)) |->
                     SelectSeq(submissions,
                        LAMBDA r : r.user_id = user_id /\ r.correct)[i].challenge]
    IN  SelectSeq(all_chals, LAMBDA ch : ~InList(ch, solved))

\* users.update_one({"_id": id}, {"$inc": {"points": delta}}): no upsert
IncPoints(coll, id, delta) ==
    [i \in 1..Len(coll) |->
        IF coll[i]._id = id THEN [coll[i] EXCEPT !.points = @ + delta]
        ELSE coll[i]]

\* users.update_one({"_id": id}, {"$inc": ..., "$set": {"last_correct_submission": now}})
CreditUser(coll, id, pts, now) ==
    [i \in 1..Len(coll) |->
        IF coll[i]._id = id
        THEN Put([coll[i] EXCEPT !.points = @ + pts], "last_correct_submission", now)
        ELSE coll[i]]

\* flags.update_one({"_id": name}, {"$set": {...}}, upsert=True)
UpsertFlag(coll, name, flag_str, pts, link) ==
    IF FindById(coll, name) # {}
    THEN [i \in 1..Len(coll) |->
            IF coll[i]._id = name
            THEN [coll[i] EXCEPT !.flag = flag_str, !.points = pts, !.post_link = link]
            ELSE coll[i]]
    ELSE Append(coll, [_id |-> name, flag |-> flag_str, points |-> pts,
                       post_link |-> link])

\* admins.update_one({"username": n}, {"$set": {"username": n}}, upsert=True)
UpsertAdmin(coll, new_admin) ==
    IF \E a \in coll : a.username = new_admin THEN coll
    ELSE coll \cup {[username |-> new_admin]}

(***************************************************************************)
(* Inline buttons and callback data.  A /submit message carries one button *)
(* per unsolved challenge; select_challenge edits the pressed message only, *)
(* so a name once offered in a chat stays on a button of an earlier /submit *)
(* message of that chat: offered[c] is the set of those names.             *)
(* In the same way buttons[c] is the set of the callback data on the       *)
(* buttons of the other menus posted in chat c; a page turn edits one      *)
(* message and an older message of the chat may still show the button.     *)
(***************************************************************************)
SubmitPrefix == <<"s", "u", "b", "m", "i", "t">>

\* f"submit:{ch}"
SubmitData(ch) == SubmitPrefix \o <<":">> \o ch

\* re.match(r"^<prefix>:.+", data)
MatchesPrefixAny(prefix, data) ==
    /\ Len(data) > Len(prefix) + 1
    /\ SubSeq(data, 1, Len(prefix)) = prefix
    /\ data[Len(prefix) + 1] = ":"
    /\ data[Len(prefix) + 2] # "\n"

(***************************************************************************)
(* Updates: a command with its argument list, a plain text message, or a   *)
(* press on an inline button (its callback data).                          *)
(***************************************************************************)
CommandUpdate(u, c, cmd, args) ==
    [type |-> "command", user |-> u, chat |-> c, command |-> cmd, args |-> args,
     text |-> <<>>, data |-> <<>>]

TextUpdate(u, c, t) ==
    [type |-> "text", user |-> u, chat |-> c, command |-> "", args |-> <<>>,
     text |-> t, data |-> <<>>]

CallbackUpdate(u, c, data) ==
    [type |-> "callback", user |-> u, chat |-> c, command |-> "", args |-> <<>>,
     text |-> <<>>, data |-> data]

\* a press on a Prev or Next button, with what the edits of the message the
\* handler attempts end in, in the order it attempts them
NavUpdate(u, c, data, edits) ==
    [type |-> "callback", user |-> u, chat |-> c, command |-> "", args |-> <<>>,
     text |-> <<>>, data |-> data, edits |-> edits]

(***************************************************************************)
(* The handlers.  Each states the next value of the stores, of user_data,  *)
(* of the buttons, of the clock and of the reply; the conversation state   *)
(* is written by the dispatcher.                                           *)
(***************************************************************************)
\* update.message.reply_text(...) / query.edit_message_text(...): the kind of
\* reply and the user it answers
Reply(upd, kind) == [kind |-> kind, user |-> upd.user]

\* submit_start: register the user, offer the unsolved challenges
submit_start(upd) ==
    LET unsolved == get_unsolved_challenges(upd.user) IN
    /\ users' = add_user_if_not_exists(users, upd.user, Username(upd.user))
    /\ IF unsolved = <<>>
       THEN /\ reply' = Reply(upd, "all_solved")
            /\ offered' = offered
       ELSE /\ reply' = [kind |-> "select_challenge", user |-> upd.user,
                         buttons |-> unsolved]
            /\ offered' = [offered EXCEPT ![upd.chat] = @ \cup Range(unsolved)]
    /\ UNCHANGED <<flags, submissions, admins, user_data, clock>>

\* a variant that keeps the pressed challenge in one place for all users; the
\* isolation property C16 tells it from select_challenge
select_challenge_shared(upd) ==
    LET chal == AfterColon(upd.data) IN
    /\ user_data' = [u \in Users |-> Put(user_data[u], "challenge", chal)]
    /\ offered' = offered
    /\ reply' = Reply(upd, "send_flag")
    /\ UNCHANGED <<flags, submissions, users, admins, clock>>

\* a variant that keeps the challenge already stored; the last-write-wins
\* property C21 tells it from select_challenge
select_challenge_keeping_first(upd) ==
    LET chal == AfterColon(upd.data) IN
    /\ user_data' = [user_data EXCEPT
                        ![upd.user] = IF "challenge" \in DOMAIN @ THEN @
                                      ELSE Put(@, "challenge", chal)]
    /\ offered' = offered
    /\ reply' = Reply(upd, "send_flag")
    /\ UNCHANGED <<flags, submissions, users, admins, clock>>

\* select_challenge: store the pressed challenge and edit the pressed message
\* (the other /submit messages of the chat keep their buttons)
select_challenge(upd) ==
    LET chal == AfterColon(upd.data) IN
    /\ user_data' = [user_data EXCEPT ![upd.user] = Put(@, "challenge", chal)]
    /\ offered' = offered
    /\ reply' = Reply(upd, "send_flag")
    /\ UNCHANGED <<flags, submissions, users, admins, clock>>

\* the row receive_flag inserts
SubmissionRow(user_id, chal, flag_text, correct, now) ==
    [user_id |-> user_id, challenge |-> chal, submitted_flag |-> flag_text,
     correct |-> correct, timestamp |-> now]

\* a variant that records a wrong guess when the challenge is gone; the
\* deleted-mid-flow property C10 tells it from receive_flag
receive_flag_recording_missing(upd) ==
    LET chal == Get(user_data[upd.user], "challenge")
        flag_text == Strip(upd.text)
        docs == FindById(flags, chal)
        now == clock + 1
    IN
    IF docs = {}
    THEN /\ submissions' =
                Append(submissions,
                       SubmissionRow(upd.user, chal, flag_text, FALSE, now))
         /\ reply' = Reply(upd, "not_found")
         /\ clock' = now
         /\ UNCHANGED <<flags, users, admins, user_data, offered>>
    ELSE LET doc == CHOOSE d \in docs : TRUE
             correct == flag_text = doc.flag
             pts == doc.points
         IN /\ submissions' =
                   Append(submissions,
                          SubmissionRow(upd.user, chal, flag_text, correct, now))
            /\ users' = IF correct THEN CreditUser(users, upd.user, pts, now) ELSE users
            /\ reply' = Reply(upd, IF correct THEN "correct" ELSE "incorrect")
            /\ clock' = now
            /\ UNCHANGED <<flags, admins, user_data, offered>>

\* receive_flag: judge the text against the stored challenge
receive_flag(upd) ==
    LET chal == Get(user_data[upd.user], "challenge")
        flag_text == Strip(upd.text)
        docs == FindById(flags, chal)
    IN
    IF docs = {}
    THEN /\ reply' = Reply(upd, "not_found")
         /\ UNCHANGED <<flags, submissions, users, admins, user_data, offered, clock>>
    ELSE LET doc == CHOOSE d \in docs : TRUE
             correct == flag_text = doc.flag
             pts == doc.points
             now == clock + 1
         IN /\ submissions' =
                   Append(submissions,
                          SubmissionRow(upd.user, chal, flag_text, correct, now))
            /\ users' = IF correct THEN CreditUser(users, upd.user, pts, now) ELSE users
            /\ reply' = Reply(upd, IF correct THEN "correct" ELSE "incorrect")
            /\ clock' = now
            /\ UNCHANGED <<flags, admins, user_data, offered>>

\* f"detail:{ch}"
DetailData(ch) == <<"d", "e", "t", "a", "i", "l", ":">> \o ch

\* view_challenges: one detail button per stored challenge
view_challenges(upd) ==
    LET rows == Ids(flags) IN
    /\ reply' = IF rows = <<>> THEN Reply(upd, "no_challenges")
                ELSE [kind |-> "challenge_list", user |-> upd.user, buttons |-> rows,
                      posted |-> {DetailData(ch) : ch \in Range(rows)}]
    /\ UNCHANGED <<flags, submissions, users, admins, user_data, offered, clock>>

\* details_challenge: look the challenge up and show its points and link; when
\* find_one returns None, doc.get raises AttributeError
details_challenge(upd) ==
    LET name == Split(upd.data, ":", 1)[2]
        docs == FindById(flags, name)
    IN
    /\ reply' = IF docs = {}
                THEN [kind |-> "exception", user |-> upd.user,
                      error |-> "AttributeError"]
                ELSE LET doc == CHOOSE d \in docs : TRUE IN
                     [kind |-> "details", user |-> upd.user,
                      name |-> HtmlEscape(name), points |-> doc.points,
                      link |-> doc.post_link]
    /\ UNCHANGED <<flags, submissions, users, admins, user_data, offered, clock>>

\* whether a user document has a last_correct_submission
HasStamp(d) == "last_correct_submission" \in DOMAIN d

\* the order of sort([("points", -1), ("last_correct_submission", 1)]) between
\* two documents: more points first, then the earlier stamp, a missing stamp
\* before any stamp; FALSE when the documents are equal on both keys
RanksBefore(a, b) ==
    \/ a.points > b.points
    \/ /\ a.points = b.points
       /\ \/ ~HasStamp(a) /\ HasStamp(b)
          \/ HasStamp(a) /\ HasStamp(b)
             /\ a.last_correct_submission < b.last_correct_submission

\* list(users.find().sort(...)): documents equal on both keys come in store
\* order, or in the reverse of it when flip holds
SortedUsers(coll, flip) ==
    LET first(i, j) ==
            \/ RanksBefore(coll[i], coll[j])
            \/ /\ ~RanksBefore(coll[j], coll[i])
               /\ IF flip THEN j < i ELSE i < j
        pos(i) == 1 + Cardinality({j \in 1..Len(coll) : first(j, i)})
    IN [k \in 1..Len(coll) |-> coll[CHOOSE i \in 1..Len(coll) : pos(i) = k]]

\* the lines of the leaderboard: rank, escaped name, points
LeaderboardItems(all_users) ==
    [i \in 1..Len(all_users) |->
        [rank |-> i,
         name |-> HtmlEscape(IF all_users[i].username = <<>> THEN Unknown
                             ELSE all_users[i].username),
         points |-> all_users[i].points]]

\* f"{prefix}:{page}:nav" for the prefix "lead"
NavData(page) == <<"l", "e", "a", "d", ":">> \o Str(page) \o <<":", "n", "a", "v">>

\* build_menu(items, page, 'lead'): the callback data of its Prev and Next
NavButtons(items, page) ==
    (IF page > 0 THEN {NavData(page - 1)} ELSE {})
    \cup (IF page * ITEMS_PER_PAGE + ITEMS_PER_PAGE < Len(items)
          THEN {NavData(page + 1)} ELSE {})

\* leaderboard_start: sort the users, keep the list in user_data, show page 0
leaderboard_start(upd) ==
    /\ \E flip \in BOOLEAN :
          LET all_users == SortedUsers(users, flip)
              items == LeaderboardItems(all_users)
          IN IF all_users = <<>>
             THEN /\ reply' = Reply(upd, "no_users")
                  /\ user_data' = user_data
             ELSE /\ user_data' = [user_data EXCEPT
                                      ![upd.user] = Put(@, "leaderboard_list", all_users)]
                  /\ reply' = [kind |-> "leaderboard", user |-> upd.user,
                               page_items |-> Slice(items, 0, ITEMS_PER_PAGE),
                               posted |-> NavButtons(items, 0)]
    /\ UNCHANGED <<flags, submissions, users, admins, offered, clock>>

\* what a call of the Bot API that edits a message can end in
EditOutcomes == {"ok", "TimedOut", "MESSAGE_ID_INVALID", "BadRequest"}

RECURSIVE EditLoop(_, _, _, _)
\* the loop "for attempt in range(3)" of leaderboard_page from the given
\* attempt on, and the edit after it: the reply the user is left with, which
\* for an edit that went through is the page of the pressed button
EditLoop(upd, attempt, page_items, posted) ==
    IF attempt > 3
    THEN IF upd.edits[4] = "ok"
         THEN [kind |-> "leaderboard_error", user |-> upd.user, attempts |-> 4]
         ELSE [kind |-> "exception", user |-> upd.user, attempts |-> 4,
               error |-> upd.edits[4]]
    ELSE IF upd.edits[attempt] = "ok"
    THEN [kind |-> "leaderboard", user |-> upd.user, attempts |-> attempt,
          page |-> IntOf(Split(upd.data, ":", 2)[2]),
          page_items |-> page_items, posted |-> posted]
    ELSE IF upd.edits[attempt] = "MESSAGE_ID_INVALID"
    THEN [kind |-> "leaderboard_expired", user |-> upd.user, attempts |-> attempt]
    ELSE EditLoop(upd, attempt + 1, page_items, posted)

\* a variant that sorts the store again at every page turn; the snapshot
\* property C13 tells it from leaderboard_page
leaderboard_page_requerying(upd) ==
    LET data == Split(upd.data, ":", 2)
        page == IntOf(data[2])
        all_users == SortedUsers(users, FALSE)
        items == LeaderboardItems(all_users)
        start == page * ITEMS_PER_PAGE
    IN
    /\ reply' =
          IF ~(Len(data) = 3 /\ data[3] = <<"n", "a", "v">>)
          THEN Reply(upd, "none")
          ELSE IF all_users = <<>>
          THEN IF upd.edits[1] = "ok"
               THEN [kind |-> "leaderboard_not_found", user |-> upd.user, attempts |-> 1]
               ELSE [kind |-> "exception", user |-> upd.user, attempts |-> 1,
                     error |-> upd.edits[1]]
          ELSE EditLoop(upd, 1, Slice(items, start, start + ITEMS_PER_PAGE),
                        NavButtons(items, page))
    /\ UNCHANGED <<flags, submissions, users, admins, user_data, offered, clock>>

\* leaderboard_page: slice the list kept in user_data and edit the message
leaderboard_page(upd) ==
    LET data == Split(upd.data, ":", 2)
        page == IntOf(data[2])
        all_users == IF "leaderboard_list" \in DOMAIN user_data[upd.user]
                     THEN user_data[upd.user]["leaderboard_list"] ELSE <<>>
        items == LeaderboardItems(all_users)
        start == page * ITEMS_PER_PAGE
    IN
    /\ reply' =
          IF ~(Len(data) = 3 /\ data[3] = <<"n", "a", "v">>)
          THEN Reply(upd, "none")
          ELSE IF all_users = <<>>
          THEN IF upd.edits[1] = "ok"
               THEN [kind |-> "leaderboard_not_found", user |-> upd.user, attempts |-> 1]
               ELSE [kind |-> "exception", user |-> upd.user, attempts |-> 1,
                     error |-> upd.edits[1]]
          ELSE EditLoop(upd, 1, Slice(items, start, start + ITEMS_PER_PAGE),
                        NavButtons(items, page))
    /\ UNCHANGED <<flags, submissions, users, admins, user_data, offered, clock>>

\* what a call of set_my_commands can end in
MenuOutcomes == {"ok", "TimedOut", "NetworkError"}

RECURSIVE StartupLoop(_, _)
\* the loop "for attempt in range(3)" of on_startup from the given attempt on:
\* a time-out is logged and the call repeated, any other error leaves the loop
StartupLoop(outcomes, attempt) ==
    IF attempt > 3
    THEN [registered |-> FALSE, attempts |-> 3, raised |-> None]
    ELSE IF outcomes[attempt] = "ok"
    THEN [registered |-> TRUE, attempts |-> attempt, raised |-> None]
    ELSE IF outcomes[attempt] = "TimedOut"
    THEN StartupLoop(outcomes, attempt + 1)
    ELSE [registered |-> FALSE, attempts |-> attempt, raised |-> outcomes[attempt]]

\* on_startup: register the command menu, given what each call ends in
on_startup(outcomes) == StartupLoop(outcomes, 1)

\* cancel: a reply, nothing else
cancel(upd) ==
    /\ reply' = Reply(upd, "cancelled")
    /\ UNCHANGED <<flags, submissions, users, admins, user_data, offered, clock>>

\* viewusers_start: the admin gate, then the list of users, kept in user_data
viewusers_start(upd) ==
    /\ IF ~is_admin(Username(upd.user))
       THEN /\ reply' = Reply(upd, "unauthorized")
            /\ user_data' = user_data
       ELSE /\ reply' = Reply(upd, "users")
            /\ user_data' = [user_data EXCEPT ![upd.user] = Put(@, "users_list", users)]
    /\ UNCHANGED <<flags, submissions, users, admins, offered, clock>>

\* find(...).sort("timestamp", direction): rows of equal timestamp in store order
SortedByTimestamp(rows, descending) ==
    LET first(i, j) ==
            \/ IF descending THEN rows[i].timestamp > rows[j].timestamp
                             ELSE rows[i].timestamp < rows[j].timestamp
            \/ rows[i].timestamp = rows[j].timestamp /\ i < j
        pos(i) == 1 + Cardinality({j \in 1..Len(rows) : first(j, i)})
    IN [k \in 1..Len(rows) |-> rows[CHOOSE i \in 1..Len(rows) : pos(i) = k]]

\* viewsubmissions: the admin gate, then the log, newest first, kept in user_data
viewsubmissions(upd) ==
    /\ IF ~is_admin(Username(upd.user))
       THEN /\ reply' = Reply(upd, "unauthorized")
            /\ user_data' = user_data
       ELSE /\ reply' = IF submissions = <<>> THEN Reply(upd, "no_submissions")
                        ELSE Reply(upd, "submissions")
            /\ user_data' = [user_data EXCEPT
                                ![upd.user] = Put(@, "submissions_list",
                                                  SortedByTimestamp(submissions, TRUE))]
    /\ UNCHANGED <<flags, submissions, users, admins, offered, clock>>

\* the $lookup pipeline of bloods_start: per challenge, the number of distinct
\* user ids with a correct submission for it
SolverCounts ==
    [i \in 1..Len(flags) |->
        [_id |-> flags[i]._id,
         solver_count |->
            Cardinality({r.user_id : r \in {x \in Range(submissions) :
                            x.challenge = flags[i]._id /\ x.correct = TRUE}})]]

\* all_chals.sort(key=lambda x: x["_id"].lower()): list.sort is stable
SortedByLowerId(chals) ==
    LET first(i, j) ==
            \/ StrLess(Lower(chals[i]._id), Lower(chals[j]._id))
            \/ Lower(chals[i]._id) = Lower(chals[j]._id) /\ i < j
        pos(i) == 1 + Cardinality({j \in 1..Len(chals) : first(j, i)})
    IN [k \in 1..Len(chals) |-> chals[CHOOSE i \in 1..Len(chals) : pos(i) = k]]

\* f"bloods_show:{name}"
BloodsShowData(name) ==
    <<"b", "l", "o", "o", "d", "s", "_", "s", "h", "o", "w", ":">> \o name

\* bloods_start and _bloods_show_page(update, context, 0): the challenges with
\* their solver counts, kept in user_data, one button each
bloods_start(upd) ==
    LET all_chals == SortedByLowerId(SolverCounts)
        shown == Slice(all_chals, 0, ITEMS_PER_PAGE)
    IN
    /\ user_data' = [user_data EXCEPT ![upd.user] = Put(@, "bloods_list", all_chals)]
    /\ reply' = IF all_chals = <<>> THEN Reply(upd, "no_challenges")
                ELSE [kind |-> "bloods_list", user |-> upd.user, buttons |-> shown,
                      posted |-> {BloodsShowData(c._id) : c \in Range(shown)}]
    /\ UNCHANGED <<flags, submissions, users, admins, offered, clock>>

\* udoc.get("username") or udoc.get("first_name") or "Unknown", for the user
\* document of the id or {} (no document holds first_name)
SolverName(user_id) ==
    LET docs == FindById(users, user_id) IN
    IF docs = {} THEN Unknown
    ELSE IF (CHOOSE d \in docs : TRUE).username = <<>> THEN Unknown
    ELSE (CHOOSE d \in docs : TRUE).username

RECURSIVE DistinctNames(_, _)
\* the loop of bloods_show: the names of the rows' users, a name seen before
\* is skipped
DistinctNames(subs, seen) ==
    IF subs = <<>> THEN <<>>
    ELSE LET name == SolverName(Head(subs).user_id) IN
         IF name \in seen THEN DistinctNames(Tail(subs), seen)
         ELSE <<name>> \o DistinctNames(Tail(subs), seen \cup {name})

\* bloods_show: the solvers of the pressed challenge, earliest first; the first
\* line of the list is the first blood
bloods_show(upd) ==
    LET chal == Split(upd.data, ":", 1)[2]
        subs == SortedByTimestamp(
                    SelectSeq(submissions,
                              LAMBDA r : r.challenge = chal /\ r.correct = TRUE),
                    FALSE)
    IN
    /\ reply' = IF subs = <<>> THEN Reply(upd, "no_solvers")
                ELSE [kind |-> "solvers", user |-> upd.user, challenge |-> chal,
                      solvers |-> DistinctNames(subs, {})]
    /\ UNCHANGED <<flags, submissions, users, admins, user_data, offered, clock>>

\* addnewadmins: the admin gate, the usage check, the upsert
addnewadmins(upd) ==
    IF ~is_admin(Username(upd.user))
    THEN /\ reply' = Reply(upd, "unauthorized")
         /\ UNCHANGED <<flags, submissions, users, admins, user_data, offered, clock>>
    ELSE IF Len(upd.args) # 1
    THEN /\ reply' = Reply(upd, "usage")
         /\ UNCHANGED <<flags, submissions, users, admins, user_data, offered, clock>>
    ELSE LET new_admin == LStripChar(upd.args[1], "@") IN
         /\ admins' = UpsertAdmin(admins, new_admin)
         /\ reply' = Reply(upd, "admin_added")
         /\ UNCHANGED <<flags, submissions, users, user_data, offered, clock>>

RECURSIVE DecrementSolvers(_, _, _)
\* for s in submissions.find({challenge, correct}): users.update_one($inc -pts)
DecrementSolvers(coll, rows, pts) ==
    IF rows = <<>> THEN coll
    ELSE DecrementSolvers(IncPoints(coll, Head(rows).user_id, 0 - pts), Tail(rows), pts)

\* a variant that removes the challenge and takes the points back but leaves
\* the Submission rows; the referential integrity C23 tells it from
\* delete_challenge
delete_challenge_keeping_rows(upd) ==
    IF ~is_admin(Username(upd.user))
    THEN /\ reply' = Reply(upd, "unauthorized")
         /\ UNCHANGED <<flags, submissions, users, admins, user_data, offered, clock>>
    ELSE IF upd.args = <<>>
    THEN /\ reply' = Reply(upd, "usage")
         /\ UNCHANGED <<flags, submissions, users, admins, user_data, offered, clock>>
    ELSE LET name == Strip(Join(<<" ">>, upd.args))
             docs == FindById(flags, name)
         IN
         IF docs = {}
         THEN /\ reply' = Reply(upd, "does_not_exist")
              /\ UNCHANGED <<flags, submissions, users, admins, user_data, offered,
                             clock>>
         ELSE LET pts == (CHOOSE d \in docs : TRUE).points
                  rows == SelectSeq(submissions,
                                    LAMBDA r : r.challenge = name /\ r.correct)
              IN /\ users' = DecrementSolvers(users, rows, pts)
                 /\ flags' = DeleteById(flags, name)
                 /\ reply' = Reply(upd, "deleted")
                 /\ UNCHANGED <<submissions, admins, user_data, offered, clock>>

\* delete_challenge: the admin gate, the usage check, the lookup, the cascade
delete_challenge(upd) ==
    IF ~is_admin(Username(upd.user))
    THEN /\ reply' = Reply(upd, "unauthorized")
         /\ UNCHANGED <<flags, submissions, users, admins, user_data, offered, clock>>
    ELSE IF upd.args = <<>>
    THEN /\ reply' = Reply(upd, "usage")
         /\ UNCHANGED <<flags, submissions, users, admins, user_data, offered, clock>>
    ELSE LET name == Strip(Join(<<" ">>, upd.args))
             docs == FindById(flags, name)
         IN
         IF docs = {}
         THEN /\ reply' = Reply(upd, "does_not_exist")
              /\ UNCHANGED <<flags, submissions, users, admins, user_data, offered,
                             clock>>
         ELSE LET pts == (CHOOSE d \in docs : TRUE).points
                  rows == SelectSeq(submissions,
                                    LAMBDA r : r.challenge = name /\ r.correct)
              IN /\ users' = DecrementSolvers(users, rows, pts)
                 /\ submissions' = DeleteByChallenge(submissions, name)
                 /\ flags' = DeleteById(flags, name)
                 /\ reply' = Reply(upd, "deleted")
                 /\ UNCHANGED <<admins, user_data, offered, clock>>

(***************************************************************************)
(* The authoring conversation: addflag_start, af_name .. af_flag.          *)
(***************************************************************************)
\* addflag_start: the admin gate, then the prompt for the name
addflag_start(upd) ==
    /\ reply' = IF ~is_admin(Username(upd.user)) THEN Reply(upd, "unauthorized")
                ELSE Reply(upd, "enter_name")
    /\ UNCHANGED <<flags, submissions, users, admins, user_data, offered, clock>>

\* af_name: store the stripped text as the name
af_name(upd) ==
    /\ user_data' = [user_data EXCEPT ![upd.user] = Put(@, "af_name", Strip(upd.text))]
    /\ reply' = Reply(upd, "enter_points")
    /\ UNCHANGED <<flags, submissions, users, admins, offered, clock>>

\* af_points: int() of the stripped text, or the format error on ValueError
af_points(upd) ==
    /\ IF IsInt(Strip(upd.text))
       THEN /\ user_data' = [user_data EXCEPT
                                ![upd.user] = Put(@, "af_points", IntOf(Strip(upd.text)))]
            /\ reply' = Reply(upd, "enter_link")
       ELSE /\ user_data' = user_data
            /\ reply' = Reply(upd, "invalid_integer")
    /\ UNCHANGED <<flags, submissions, users, admins, offered, clock>>

\* af_link: store the stripped text as the link
af_link(upd) ==
    /\ user_data' = [user_data EXCEPT ![upd.user] = Put(@, "af_link", Strip(upd.text))]
    /\ reply' = Reply(upd, "enter_flag")
    /\ UNCHANGED <<flags, submissions, users, admins, offered, clock>>

\* af_flag: upsert the challenge from the stored fields and the stripped text
af_flag(upd) ==
    LET name == user_data[upd.user]["af_name"]
        pts == user_data[upd.user]["af_points"]
        link == user_data[upd.user]["af_link"]
        flag_str == Strip(upd.text)
    IN /\ flags' = UpsertFlag(flags, name, flag_str, pts, link)
       /\ reply' = Reply(upd, "challenge_added")
       /\ UNCHANGED <<submissions, users, admins, user_data, offered, clock>>

\* what a conversation callback returns: the next state, given the current one
Returns(callback, upd, cur) ==
    CASE callback = "addflag_start" ->
            IF is_admin(Username(upd.user)) THEN AF_NAME ELSE END
      [] callback = "af_name" -> AF_POINTS
      [] callback = "af_points" -> IF IsInt(Strip(upd.text)) THEN AF_LINK ELSE AF_POINTS
      [] callback = "af_link" -> AF_FLAG
      [] callback = "af_flag" -> END
      [] callback = "cancel" -> END
      [] OTHER -> cur

(***************************************************************************)
(* The dispatcher: main() registers every handler in one group, and the    *)
(* first handler of the group whose check accepts the update handles it.   *)
(***************************************************************************)
\* filters.TEXT & ~filters.COMMAND
IsPlainText(upd) == upd.type = "text"

\* CommandHandler(cmd, ...)
IsCommand(upd, cmd) == upd.type = "command" /\ upd.command = cmd

\* the callback the addflag ConversationHandler runs for the update, or "none"
ConversationCallback(upd) ==
    LET cur == conv[<<upd.chat, upd.user>>] IN
    IF cur = END
    THEN IF IsCommand(upd, "addflag") THEN "addflag_start" ELSE "none"
    ELSE IF cur = AF_NAME /\ IsPlainText(upd) THEN "af_name"
    ELSE IF cur = AF_POINTS /\ IsPlainText(upd) THEN "af_points"
    ELSE IF cur = AF_LINK /\ IsPlainText(upd) THEN "af_link"
    ELSE IF cur = AF_FLAG /\ IsPlainText(upd) THEN "af_flag"
    ELSE IF IsCommand(upd, "cancel") THEN "cancel"
    ELSE "none"

\* the handlers of main(), in registration order, that the modelled updates can
\* reach; "conversation" marks the addflag ConversationHandler
Handlers ==
    << [kind |-> "command", arg |-> "viewchallenges", callback |-> "view_challenges"],
       [kind |-> "command", arg |-> "submit", callback |-> "submit_start"],
       [kind |-> "callback", arg |-> SubmitPrefix, callback |-> "select_challenge"],
       [kind |-> "text", arg |-> "", callback |-> "receive_flag"],
       [kind |-> "command", arg |-> "cancel", callback |-> "cancel"],
       [kind |-> "command", arg |-> "leaderboard", callback |-> "leaderboard_start"],
       [kind |-> "nav", arg |-> <<"l", "e", "a", "d">>, callback |-> "leaderboard_page"],
       [kind |-> "command", arg |-> "viewusers", callback |-> "viewusers_start"],
       [kind |-> "command", arg |-> "viewsubmissions", callback |-> "viewsubmissions"],
       [kind |-> "command", arg |-> "bloods", callback |-> "bloods_start"],
       [kind |-> "callback", arg |-> <<"b", "l", "o", "o", "d", "s", "_", "s", "h", "o", "w">>,
        callback |-> "bloods_show"],
       [kind |-> "callback", arg |-> <<"d", "e", "t", "a", "i", "l">>,
        callback |-> "details_challenge"],
       [kind |-> "command", arg |-> "addnewadmins", callback |-> "addnewadmins"],
       [kind |-> "command", arg |-> "delete", callback |-> "delete_challenge"],
       [kind |-> "conversation", arg |-> "", callback |-> ""] >>

\* re.match(r"^<prefix>:\d+:nav$", data)
MatchesNav(prefix, data) ==
    LET parts == Split(data, ":", 2) IN
    /\ Len(parts) = 3
    /\ parts[1] = prefix
    /\ AllDigits(parts[2])
    /\ parts[3] = <<"n", "a", "v">>

\* handler.check_update(update)
CheckUpdate(h, upd) ==
    CASE h.kind = "command" -> IsCommand(upd, h.arg)
      [] h.kind = "callback" ->
            upd.type = "callback" /\ MatchesPrefixAny(h.arg, upd.data)
      [] h.kind = "nav" -> upd.type = "callback" /\ MatchesNav(h.arg, upd.data)
      [] h.kind = "text" -> IsPlainText(upd)
      [] h.kind = "conversation" -> ConversationCallback(upd) # "none"

\* the first handler of the list that accepts the update (0: none does)
FirstMatch(hs, upd) ==
    IF \E i \in 1..Len(hs) : CheckUpdate(hs[i], upd)
    THEN CHOOSE i \in 1..Len(hs) :
            /\ CheckUpdate(hs[i], upd)
            /\ \A j \in 1..(i - 1) : ~CheckUpdate(hs[j], upd)
    ELSE 0

\* the callback that handles the update and whether the conversation runs it
Route(hs, upd) ==
    LET i == FirstMatch(hs, upd) IN
    IF i = 0 THEN [callback |-> "none", conversation |-> FALSE]
    ELSE IF hs[i].kind = "conversation"
    THEN [callback |-> ConversationCallback(upd), conversation |-> TRUE]
    ELSE [callback |-> hs[i].callback, conversation |-> FALSE]

\* run the callback on the update
Run(callback, upd) ==
    CASE callback = "submit_start" -> submit_start(upd)
      [] callback = "select_challenge" -> select_challenge(upd)
      [] callback = "receive_flag" -> receive_flag(upd)
      [] callback = "cancel" -> cancel(upd)
      [] callback = "view_challenges" -> view_challenges(upd)
      [] callback = "details_challenge" -> details_challenge(upd)
      [] callback = "leaderboard_start" -> leaderboard_start(upd)
      [] callback = "leaderboard_page" -> leaderboard_page(upd)
      [] callback = "bloods_start" -> bloods_start(upd)
      [] callback = "bloods_show" -> bloods_show(upd)
      [] callback = "viewusers_start" -> viewusers_start(upd)
      [] callback = "viewsubmissions" -> viewsubmissions(upd)
      [] callback = "addnewadmins" -> addnewadmins(upd)
      [] callback = "delete_challenge" -> delete_challenge(upd)
      [] callback = "addflag_start" -> addflag_start(upd)
      [] callback = "af_name" -> af_name(upd)
      [] callback = "af_points" -> af_points(upd)
      [] callback = "af_link" -> af_link(upd)
      [] callback = "af_flag" -> af_flag(upd)
      [] callback = "none" ->
            /\ reply' = Reply(upd, "none")
            /\ UNCHANGED <<flags, submissions, users, admins, user_data, offered,
                           clock>>

\* the callback data on the keyboard of a reply (none on a plain reply)
Posted(r) == IF "posted" \in DOMAIN r THEN r.posted ELSE {}

\* process_update over a handler list: route the update, run the callback, and
\* let the ConversationHandler record the state its callback returned
DeliverTo(hs, upd) ==
    LET r == Route(hs, upd)
        key == <<upd.chat, upd.user>>
    IN /\ Run(r.callback, upd)
       /\ conv' = IF r.conversation
                  THEN [conv EXCEPT ![key] = Returns(r.callback, upd, conv[key])]
                  ELSE conv
       /\ buttons' = [buttons EXCEPT ![upd.chat] = @ \cup Posted(reply')]
       /\ UNCHANGED ADMIN_USERNAME

\* Application.process_update with the handlers of main()
Deliver(upd) == DeliverTo(Handlers, upd)

(***************************************************************************)
(* The state after start-up and the events users cause.                    *)
(***************************************************************************)
\* the user is not in an authoring dialogue
Off == [chat |-> 0, sent |-> 0]

\* what an admin answers to the four prompts of the authoring flow: the name
\* of a challenge, its points, its link, its flag
Script == << <<" ", "w", "1">>, <<"7">>, <<"u">>, <<"g", "\n">> >>

Init ==
    /\ ADMIN_USERNAME \in AdminConfigs
    /\ flags = InitialFlags
    /\ submissions = <<>>
    /\ users = <<>>
    /\ admins = {}
    /\ user_data = [u \in Users |-> <<>>]
    /\ conv = [k \in Chats \X Users |-> END]
    /\ offered = [c \in Chats |-> {}]
    /\ clock = 0
    /\ reply = [kind |-> "none", user |-> 0]
    /\ session = [u \in Users |-> Off]
    /\ buttons = [c \in Chats |-> {}]

\* any event of the user other than the next message of the dialogue ends it
Interrupt(u) == session' = [session EXCEPT ![u] = Off]

\* /submit
SubmitCmd(u, c) ==
    /\ Member(u, c)
    /\ Deliver(CommandUpdate(u, c, "submit", <<>>))
    /\ Interrupt(u)

\* a press on a button of a /submit message of the chat
PressSubmitButton(u, c) ==
    /\ Member(u, c)
    /\ \E ch \in offered[c] : Deliver(CallbackUpdate(u, c, SubmitData(ch)))
    /\ Interrupt(u)

\* a plain text message
TextMsg(u, c) ==
    /\ Member(u, c)
    /\ clock < MaxSubmissions
    /\ \E t \in FlagTexts : Deliver(TextUpdate(u, c, t))
    /\ Interrupt(u)

\* the challenges whose buttons the user pressed, in order, since the user's
\* last other event (at most the last two are kept)
PressedBy(u) == IF "pressed" \in DOMAIN session[u] THEN session[u].pressed ELSE <<>>

\* whether the user has sent a text message after those presses
TextSent(u) == "text" \in DOMAIN session[u]

\* a press on a button of a /submit message of the chat by a user who sends no
\* text message in between: the press is added to the user's presses
PressNoted(u, c) ==
    /\ Member(u, c)
    /\ \E ch \in offered[c] :
          /\ Deliver(CallbackUpdate(u, c, SubmitData(ch)))
          /\ session' =
                [session EXCEPT ![u] =
                    [chat |-> 0, sent |-> 0,
                     pressed |-> IF TextSent(u) \/ PressedBy(u) = <<>> THEN <<ch>>
                                 ELSE <<PressedBy(u)[Len(PressedBy(u))], ch>>]]

\* the first text message of a user after presses on /submit buttons
TextAfterPresses(u, c) ==
    /\ Member(u, c)
    /\ PressedBy(u) # <<>>
    /\ ~TextSent(u)
    /\ clock < MaxSubmissions
    /\ \E t \in FlagTexts :
          /\ Deliver(TextUpdate(u, c, t))
          /\ session' = [session EXCEPT ![u] =
                            [chat |-> 0, sent |-> 0, pressed |-> PressedBy(u), text |-> t]]

\* /cancel
CancelCmd(u, c) ==
    /\ Member(u, c)
    /\ Deliver(CommandUpdate(u, c, "cancel", <<>>))
    /\ Interrupt(u)

\* /addflag
AddflagCmd(u, c) ==
    /\ Member(u, c)
    /\ Deliver(CommandUpdate(u, c, "addflag", <<>>))
    /\ session' = [session EXCEPT ![u] = IF reply'.kind = "enter_name"
                                         THEN [chat |-> c, sent |-> 0]
                                         ELSE Off]

\* the next answer of an admin who was asked for the name of a challenge
AuthorText(u, c) ==
    /\ Member(u, c)
    /\ session[u] # Off
    /\ session[u].chat = c
    /\ session[u].sent < Len(Script)
    /\ clock < MaxSubmissions
    /\ Deliver(TextUpdate(u, c, Script[session[u].sent + 1]))
    /\ session' = [session EXCEPT ![u].sent = @ + 1]

\* a text that int() rejects
NotAnInteger == <<"x", " ">>

\* an admin who has sent the name answers the prompt for the points with a
\* text that is no integer; the points are still to be sent
AuthorRetry(u, c) ==
    /\ Member(u, c)
    /\ session[u] = [chat |-> c, sent |-> 1]
    /\ clock < MaxSubmissions
    /\ Deliver(TextUpdate(u, c, NotAnInteger))
    /\ UNCHANGED session

\* /addnewadmins with an argument list
AddnewadminsCmd(u, c) ==
    /\ Member(u, c)
    /\ \E args \in AdminArgs : Deliver(CommandUpdate(u, c, "addnewadmins", args))
    /\ Interrupt(u)

\* /delete with an argument list
DeleteCmd(u, c) ==
    /\ Member(u, c)
    /\ \E args \in DeleteArgs : Deliver(CommandUpdate(u, c, "delete", args))
    /\ Interrupt(u)

\* /viewusers
ViewusersCmd(u, c) ==
    /\ Member(u, c)
    /\ Deliver(CommandUpdate(u, c, "viewusers", <<>>))
    /\ Interrupt(u)

\* /viewsubmissions
ViewsubmissionsCmd(u, c) ==
    /\ Member(u, c)
    /\ Deliver(CommandUpdate(u, c, "viewsubmissions", <<>>))
    /\ Interrupt(u)

\* the buttons of chat c whose callback data starts with the prefix
ButtonsOf(c, prefix) == {d \in buttons[c] : Split(d, ":", 1)[1] = prefix}

\* /viewchallenges
ViewchallengesCmd(u, c) ==
    /\ Member(u, c)
    /\ Deliver(CommandUpdate(u, c, "viewchallenges", <<>>))
    /\ Interrupt(u)

\* a press on a detail button of a /viewchallenges message of the chat
PressDetail(u, c) ==
    /\ Member(u, c)
    /\ \E d \in ButtonsOf(c, <<"d", "e", "t", "a", "i", "l">>) :
          Deliver(CallbackUpdate(u, c, d))
    /\ Interrupt(u)

\* /leaderboard
LeaderboardCmd(u, c) ==
    /\ Member(u, c)
    /\ Deliver(CommandUpdate(u, c, "leaderboard", <<>>))
    /\ Interrupt(u)

\* the outcomes of the edits a page turn can attempt, one after the other: the
\* handler stops at the first edit that succeeds or finds the message gone, so
\* the outcomes listed after that one are never drawn (written "ok" here)
EditRuns ==
    {e \in [1..4 -> EditOutcomes] :
        \A i \in 1..3 : e[i] \in {"ok", "MESSAGE_ID_INVALID"} => e[i + 1] = "ok"}

\* a press on Prev or Next of a leaderboard message of the chat
PressNav(u, c) ==
    /\ Member(u, c)
    /\ \E d \in ButtonsOf(c, <<"l", "e", "a", "d">>) :
          \E edits \in EditRuns : Deliver(NavUpdate(u, c, d, edits))
    /\ Interrupt(u)

\* /bloods
BloodsCmd(u, c) ==
    /\ Member(u, c)
    /\ Deliver(CommandUpdate(u, c, "bloods", <<>>))
    /\ Interrupt(u)

\* a press on a challenge button of a /bloods message of the chat
PressBloodsShow(u, c) ==
    /\ Member(u, c)
    /\ \E d \in ButtonsOf(c, <<"b", "l", "o", "o", "d", "s", "_", "s", "h", "o", "w">>) :
          Deliver(CallbackUpdate(u, c, d))
    /\ Interrupt(u)

Next ==
    \/ \E u \in Users : \E c \in Chats : ViewchallengesCmd(u, c)
    \/ \E u \in Users : \E c \in Chats : PressDetail(u, c)
    \/ \E u \in Users : \E c \in Chats : LeaderboardCmd(u, c)
    \/ \E u \in Users : \E c \in Chats : PressNav(u, c)
    \/ \E u \in Users : \E c \in Chats : BloodsCmd(u, c)
    \/ \E u \in Users : \E c \in Chats : PressBloodsShow(u, c)
    \/ \E u \in Users : \E c \in Chats : SubmitCmd(u, c)
    \/ \E u \in Users : \E c \in Chats : PressSubmitButton(u, c)
    \/ \E u \in Users : \E c \in Chats : TextMsg(u, c)
    \/ \E u \in Users : \E c \in Chats : PressNoted(u, c)
    \/ \E u \in Users : \E c \in Chats : TextAfterPresses(u, c)
    \/ \E u \in Users : \E c \in Chats : CancelCmd(u, c)
    \/ \E u \in Users : \E c \in Chats : AddflagCmd(u, c)
    \/ \E u \in Users : \E c \in Chats : AuthorText(u, c)
    \/ \E u \in Users : \E c \in Chats : AuthorRetry(u, c)
    \/ \E u \in Users : \E c \in Chats : AddnewadminsCmd(u, c)
    \/ \E u \in Users : \E c \in Chats : DeleteCmd(u, c)
    \/ \E u \in Users : \E c \in Chats : ViewusersCmd(u, c)
    \/ \E u \in Users : \E c \in Chats : ViewsubmissionsCmd(u, c)

\* the whole bot: every event, in every chat, under either configuration
Spec == Init /\ [][Next]_vars

(***************************************************************************)
(* SpecGame: the submission flow, /cancel and /delete, with both users in  *)
(* the group chat and "al" the super-admin.  The events left out change    *)
(* only admins, conv, session and reply; user_data is per user, so the     *)
(* chat an event comes from decides only which buttons it can press.       *)
(***************************************************************************)
InitGame == Init /\ ADMIN_USERNAME = Al

NextGame ==
    \/ \E u \in Users : SubmitCmd(u, GroupChat)
    \/ \E u \in Users : PressSubmitButton(u, GroupChat)
    \/ \E u \in Users : TextMsg(u, GroupChat)
    \/ \E u \in Users : CancelCmd(u, GroupChat)
    \/ \E u \in Users : DeleteCmd(u, GroupChat)

SpecGame == InitGame /\ [][NextGame]_vars

(***************************************************************************)
(* SpecAdmin: the admin commands, /cancel and text messages, in every chat *)
(* and under either configuration.                                         *)
(***************************************************************************)
NextAdmin ==
    \/ \E u \in Users : \E c \in Chats : TextMsg(u, c)
    \/ \E u \in Users : \E c \in Chats : CancelCmd(u, c)
    \/ \E u \in Users : \E c \in Chats : AddflagCmd(u, c)
    \/ \E u \in Users : \E c \in Chats : AuthorText(u, c)
    \/ \E u \in Users : \E c \in Chats : AuthorRetry(u, c)
    \/ \E u \in Users : \E c \in Chats : AddnewadminsCmd(u, c)
    \/ \E u \in Users : \E c \in Chats : DeleteCmd(u, c)
    \/ \E u \in Users : \E c \in Chats : ViewusersCmd(u, c)
    \/ \E u \in Users : \E c \in Chats : ViewsubmissionsCmd(u, c)

SpecAdmin == Init /\ [][NextAdmin]_vars

(***************************************************************************)
(* SpecChats: the submission flow and /cancel of the users who are in      *)
(* every chat, in each of the chats, with "al" the super-admin.            *)
(***************************************************************************)
\* the users who are members of every chat
InEveryChat == {u \in Users : \A c \in Chats : Member(u, c)}

NextChats ==
    \/ \E u \in InEveryChat : \E c \in Chats : SubmitCmd(u, c)
    \/ \E u \in InEveryChat : \E c \in Chats : PressSubmitButton(u, c)
    \/ \E u \in InEveryChat : \E c \in Chats : TextMsg(u, c)
    \/ \E u \in InEveryChat : \E c \in Chats : CancelCmd(u, c)

SpecChats == InitGame /\ [][NextChats]_vars

(***************************************************************************)
(* SpecCatalog: /viewchallenges, the detail buttons and /delete, in every  *)
(* chat and under either configuration.                                    *)
(***************************************************************************)
NextCatalog ==
    \/ \E u \in Users : \E c \in Chats : ViewchallengesCmd(u, c)
    \/ \E u \in Users : \E c \in Chats : PressDetail(u, c)
    \/ \E u \in Users : \E c \in Chats : DeleteCmd(u, c)

SpecCatalog == Init /\ [][NextCatalog]_vars

(***************************************************************************)
(* A store that has been in use: besides the two users who act, ten users  *)
(* of an earlier season have a User record.  User 3, without a handle, has *)
(* solved "w1"; the others solved challenges that were deleted since, so   *)
(* they hold 0 points and the time of their last correct submission.       *)
(***************************************************************************)
\* the User records of the earlier season, ids 3 to 12
SeasonUsers ==
    [i \in 1..ITEMS_PER_PAGE |->
        IF i = 1
        THEN [_id |-> 3, username |-> Unknown, points |-> 10,
              last_correct_submission |-> 0 - 1]
        ELSE [_id |-> i + 2, username |-> <<"v">> \o Str(i + 2), points |-> 0,
              last_correct_submission |-> i - 20]]

\* the Submission rows of the earlier season that are still stored
SeasonSubmissions == << SubmissionRow(3, Web1, FlagF, TRUE, 0 - 1) >>

\* the user without a handle
Solver == CHOOSE u \in Users : Username(u) = None

\* the user who reads the reports
Viewer == CHOOSE u \in Users : Username(u) = Al

InitSeason ==
    /\ ADMIN_USERNAME = Al
    /\ flags = InitialFlags
    /\ submissions = SeasonSubmissions
    /\ users = SeasonUsers
    /\ admins = {}
    /\ user_data = [u \in Users |-> <<>>]
    /\ conv = [k \in Chats \X Users |-> END]
    /\ offered = [c \in Chats |-> {}]
    /\ clock = 0
    /\ reply = [kind |-> "none", user |-> 0]
    /\ session = [u \in Users |-> Off]
    /\ buttons = [c \in Chats |-> {}]

(***************************************************************************)
(* SpecBoard: in the group chat, "al" reads /leaderboard, turns its pages  *)
(* and deletes challenges, which takes their points from the solvers,      *)
(* while /submit registers the two users.  The earlier season fills page   *)
(* 0, so the list gets its Next button once one more user is registered.   *)
(***************************************************************************)
NextBoard ==
    \/ LeaderboardCmd(Viewer, GroupChat)
    \/ PressNav(Viewer, GroupChat)
    \/ DeleteCmd(Viewer, GroupChat)
    \/ \E u \in Users : SubmitCmd(u, GroupChat)

SpecBoard == InitSeason /\ [][NextBoard]_vars

(***************************************************************************)
(* SpecBloods: in the group chat, the user without a handle goes through   *)
(* the submission flow while "al" looks at /bloods and its challenges.     *)
(***************************************************************************)
NextBloods ==
    \/ BloodsCmd(Viewer, GroupChat)
    \/ PressBloodsShow(Viewer, GroupChat)
    \/ SubmitCmd(Solver, GroupChat)
    \/ PressSubmitButton(Solver, GroupChat)
    \/ TextMsg(Solver, GroupChat)

SpecBloods == InitSeason /\ [][NextBloods]_vars

(***************************************************************************)
(* SpecIsolation: the two users side by side in the group chat, with "al"  *)
(* the super-admin.  "al" posts the /submit buttons; either user presses   *)
(* them, sends flag texts, takes the /bloods snapshot and sends /addflag.  *)
(***************************************************************************)
NextIsolation ==
    \/ SubmitCmd(Viewer, GroupChat)
    \/ \E u \in Users : PressSubmitButton(u, GroupChat)
    \/ \E u \in Users : TextMsg(u, GroupChat)
    \/ \E u \in Users : BloodsCmd(u, GroupChat)
    \/ \E u \in Users : AddflagCmd(u, GroupChat)

SpecIsolation == InitGame /\ [][NextIsolation]_vars

(***************************************************************************)
(* SpecLastWrite: "al", the super-admin, posts /submit buttons in either   *)
(* chat; users press them one after the other and then send a text, while  *)
(* "al" deletes challenges in the group chat.                              *)
(***************************************************************************)
NextLastWrite ==
    \/ \E c \in Chats : SubmitCmd(Viewer, c)
    \/ \E u \in Users : \E c \in Chats : PressNoted(u, c)
    \/ \E u \in Users : \E c \in Chats : TextAfterPresses(u, c)
    \/ DeleteCmd(Viewer, GroupChat)

SpecLastWrite == InitGame /\ [][NextLastWrite]_vars

(***************************************************************************)
(* SpecSeparation: "al", the super-admin, selects challenges in the        *)
(* submission flow, sends /addflag and answers its prompts or sends other  *)
(* texts, in either chat.                                                  *)
(***************************************************************************)
NextSeparation ==
    \/ \E c \in Chats : SubmitCmd(Viewer, c)
    \/ \E c \in Chats : PressSubmitButton(Viewer, c)
    \/ \E c \in Chats : AddflagCmd(Viewer, c)
    \/ \E c \in Chats : AuthorText(Viewer, c)
    \/ \E c \in Chats : TextMsg(Viewer, c)

SpecSeparation == InitGame /\ [][NextSeparation]_vars

(***************************************************************************)
(* SpecIntegrity: in the group chat, with "al" the super-admin, "al" posts *)
(* /submit buttons, deletes challenges and authors one; either user        *)
(* presses the buttons and sends flag texts.                               *)
(***************************************************************************)
NextIntegrity ==
    \/ SubmitCmd(Viewer, GroupChat)
    \/ \E u \in Users : PressSubmitButton(u, GroupChat)
    \/ \E u \in Users : TextMsg(u, GroupChat)
    \/ DeleteCmd(Viewer, GroupChat)
    \/ AddflagCmd(Viewer, GroupChat)
    \/ AuthorText(Viewer, GroupChat)

SpecIntegrity == InitGame /\ [][NextIntegrity]_vars

(***************************************************************************)
(* What the claims speak of.                                               *)
(***************************************************************************)
\* my_viewpoints: the point total shown to a user (0 without a user document)
PointsOf(u) ==
    LET docs == FindById(users, u) IN
    IF docs = {} THEN 0 ELSE (CHOOSE d \in docs : TRUE).points

\* the challenges for which u has at least one correct submission
SolvedBy(u) ==
    {r.challenge : r \in {x \in Range(submissions) : x.user_id = u /\ x.correct}}

RECURSIVE SumOfPoints(_)
\* the sum of the point values of a set of challenge documents
SumOfPoints(docs) ==
    IF docs = {} THEN 0
    ELSE LET d == CHOOSE x \in docs : TRUE IN d.points + SumOfPoints(docs \ {d})

\* the sum of the point values of the challenges u has solved
SolvedSum(u) == SumOfPoints({d \in Range(flags) : d._id \in SolvedBy(u)})

\* a text without its leading and trailing whitespace, stated by positions
Trimmed(t) ==
    LET solid == {i \in 1..Len(t) : t[i] \notin Whitespace} IN
    IF solid = {} THEN <<>>
    ELSE SubSeq(t, CHOOSE i \in solid : \A j \in solid : i <= j,
                   CHOOSE i \in solid : \A j \in solid : j <= i)

\* the challenge u has selected, or None
Selected(u) == Get(user_data[u], "challenge")

\* C1: while no challenge has been deleted or re-authored, no user holds more
\* points than the sum of the point values of the challenges that user solved
\* (a user is credited at most once per challenge)
C1_CreditedOncePerChallenge ==
    flags = InitialFlags => \A u \in Users : PointsOf(u) <= SolvedSum(u)

\* C3: a plain text message a user sends right after that user's flag text was
\* judged inserts no Submission row and changes no point total
C3_SingleGuessPerInvocation ==
    [][\A u \in Users : \A c \in Chats : \A t \in FlagTexts :
          (/\ reply.kind \in {"correct", "incorrect"}
           /\ reply.user = u
           /\ Deliver(TextUpdate(u, c, t)))
          => (submissions' = submissions /\ users' = users)]_vars

\* C4: when an admin deletes challenge C, worth P points, a registered user who has
\* solved C and no other challenge loses exactly P points, no Submission row names C any
\* more, and the Challenge record C is gone
C4_CascadeConsistency ==
    [][\A a \in Users : \A c \in Chats : \A args \in DeleteArgs : \A v \in Users :
          (/\ is_admin(Username(a))
           /\ Len(args) = 1
           /\ FindById(flags, args[1]) # {}
           /\ FindById(users, v) # {}
           /\ SolvedBy(v) = {args[1]}
           /\ Deliver(CommandUpdate(a, c, "delete", args)))
          => (/\ PointsOf(v)' =
                    PointsOf(v) - (CHOOSE d \in FindById(flags, args[1]) : TRUE).points
              /\ \A r \in Range(submissions') : r.challenge # args[1]
              /\ FindById(flags', args[1]) = {})]_vars

\* C7: /submit by user u offers exactly the challenge names without a correct
\* submission by u, each once, on buttons; when there is none it replies
\* all-solved and posts no button
C7_UnsolvedSetCorrect ==
    [][\A u \in Users : \A c \in Chats :
          Deliver(CommandUpdate(u, c, "submit", <<>>))
          => LET expected ==
                    {d._id : d \in Range(flags)} \
                    {r.challenge : r \in {x \in Range(submissions) :
                                             x.user_id = u /\ x.correct = TRUE}}
             IN IF expected = {}
                THEN reply'.kind = "all_solved" /\ offered' = offered
                ELSE /\ reply'.kind = "select_challenge"
                     /\ Range(reply'.buttons) = expected
                     /\ Len(reply'.buttons) = Cardinality(expected)
                     /\ expected \subseteq offered'[c]]_vars

\* C7 witness: /submit offered a challenge that another user has solved and that
\* the asking user has only answered incorrectly
C7_Witness ==
    /\ reply.kind = "select_challenge"
    /\ \E ch \in Range(reply.buttons) :
          /\ \E r \in Range(submissions) :
                r.user_id # reply.user /\ r.challenge = ch /\ r.correct
          /\ \E r \in Range(submissions) :
                r.user_id = reply.user /\ r.challenge = ch /\ ~r.correct

\* C8: a text message a user sends right after that user's /cancel is not judged
\* as a flag: it inserts no Submission row and changes no point total
C8_CancelClearsContext ==
    [][\A u \in Users : \A c \in Chats : \A t \in FlagTexts :
          (/\ reply.kind = "cancelled"
           /\ reply.user = u
           /\ Deliver(TextUpdate(u, c, t)))
          => (submissions' = submissions /\ users' = users)]_vars

\* C9: a flag text for a selected challenge that exists appends exactly one row
\* (user, challenge, trimmed text, correct), correct being exact equality with
\* the secret, and the user's total grows by the challenge's points iff correct
C9_OneRowPerFlagText ==
    [][\A u \in Users : \A c \in Chats : \A t \in FlagTexts :
          (/\ FindById(flags, Selected(u)) # {}
           /\ Deliver(TextUpdate(u, c, t)))
          => LET doc == CHOOSE d \in FindById(flags, Selected(u)) : TRUE
                 ok == Trimmed(t) = doc.flag
                 row == submissions'[Len(submissions')]
             IN /\ Len(submissions') = Len(submissions) + 1
                /\ SubSeq(submissions', 1, Len(submissions)) = submissions
                /\ row.user_id = u
                /\ row.challenge = Selected(u)
                /\ row.submitted_flag = Trimmed(t)
                /\ row.correct = ok
                /\ PointsOf(u)' = PointsOf(u) + (IF ok THEN doc.points ELSE 0)]_vars

\* C10: a flag text for a selected challenge that was deleted meanwhile gets the
\* not-found reply, inserts no Submission row and changes no point total
C10_DeletedMidFlow ==
    [][\A u \in Users : \A c \in Chats : \A t \in FlagTexts :
          (/\ Selected(u) # None
           /\ FindById(flags, Selected(u)) = {}
           /\ Deliver(TextUpdate(u, c, t)))
          => (/\ reply'.kind = "not_found"
              /\ submissions' = submissions
              /\ users' = users
              /\ flags' = flags)]_vars

\* C10 witness: a user who selected a challenge that has since been deleted sent
\* a text and got the not-found reply
C10_Witness ==
    /\ reply.kind = "not_found"
    /\ Selected(reply.user) # None
    /\ FindById(flags, Selected(reply.user)) = {}

\* the handle is the configured super-admin or is in the Admin collection
ListedAdmin(handle) ==
    \/ ADMIN_USERNAME # None /\ handle = ADMIN_USERNAME
    \/ \E a \in admins : a.username = handle

\* the admin-only commands with their argument lists
AdminOnlyUpdates(u, c) ==
    {CommandUpdate(u, c, "addflag", <<>>), CommandUpdate(u, c, "viewusers", <<>>),
     CommandUpdate(u, c, "viewsubmissions", <<>>)}
    \cup {CommandUpdate(u, c, "addnewadmins", args) : args \in AdminArgs}
    \cup {CommandUpdate(u, c, "delete", args) : args \in DeleteArgs}

\* C2: an admin-only command of a user whose handle is neither the configured
\* super-admin nor in the Admin collection is answered with the rejection and
\* leaves the Challenge, Submission and Admin collections as they were
C2_AdminGate ==
    [][\A u \in Users : \A c \in Chats : \A upd \in AdminOnlyUpdates(u, c) :
          (~ListedAdmin(Username(u)) /\ Deliver(upd))
          => (/\ reply'.kind = "unauthorized"
              /\ flags' = flags
              /\ submissions' = submissions
              /\ admins' = admins)]_vars

\* the state of the authoring flow after so many answers
StateAfter == <<AF_NAME, AF_POINTS, AF_LINK, AF_FLAG, END>>

\* the Challenge record the answers of Script describe
Authored ==
    [_id |-> Trimmed(Script[1]), flag |-> Trimmed(Script[4]), points |-> 7,
     post_link |-> Trimmed(Script[3])]

\* the number of Challenge records of that name
RecordsNamed(coll, name) == Cardinality({i \in 1..Len(coll) : coll[i]._id = name})

\* C5: each of the four answers an admin sends after /addflag, with no other
\* event of that admin in between, moves the authoring flow one state on,
\* AwaitName -> AwaitPoints -> AwaitLink -> AwaitFlag -> Idle, and after the
\* fourth a Challenge record of the name holds that flag, points and link
C5_AuthoringProgress ==
    [][\A u \in Users : \A c \in Chats : \A k \in 0..3 :
          (session[u] = [chat |-> c, sent |-> k] /\ AuthorText(u, c))
          => (/\ conv[<<c, u>>] = StateAfter[k + 1]
              /\ conv'[<<c, u>>] = StateAfter[k + 2]
              /\ k = 3 => Authored \in Range(flags'))]_vars

\* C6: when an admin has authored a name the store already holds, with other
\* values, the store holds exactly one Challenge record of that name and it
\* has the values of the later authoring
C6_IdempotentUpsert ==
    [][\A u \in Users : \A c \in Chats :
          (/\ session[u] = [chat |-> c, sent |-> 3]
           /\ FindById(flags, Authored._id) # {}
           /\ AuthorText(u, c))
          => (/\ FindById(flags', Authored._id) = {Authored}
              /\ RecordsNamed(flags', Authored._id) = 1)]_vars

\* C11: when an admin who has sent /addflag and the name answers the prompt for
\* the points with a text that is no integer, the reply is the format error,
\* the flow is and stays in AwaitPoints, no points value is stored and no
\* Challenge record is written; the integer sent next moves it to AwaitLink
C11_RetryInPlace ==
    [][\A u \in Users : \A c \in Chats :
          /\ (session[u] = [chat |-> c, sent |-> 1] /\ AuthorRetry(u, c))
             => (/\ reply'.kind = "invalid_integer"
                 /\ conv[<<c, u>>] = AF_POINTS
                 /\ conv'[<<c, u>>] = AF_POINTS
                 /\ Get(user_data'[u], "af_points") = Get(user_data[u], "af_points")
                 /\ flags' = flags)
          /\ (session[u] = [chat |-> c, sent |-> 1] /\ AuthorText(u, c))
             => (/\ conv'[<<c, u>>] = AF_LINK
                 /\ Get(user_data'[u], "af_points") = 7)]_vars

\* the handles is_admin is asked about: those of the users, a handle nobody
\* has, and the absent handle
Handles == {Username(u) : u \in Users} \cup {<<"b", "o">>, None}

\* C14: is_admin(handle) is true exactly when the handle is the configured
\* super-admin handle or an Admin record holds it; for the absent handle it is
\* false under every configuration
C14_IsAdminExact ==
    /\ \A h \in Handles \ {None} : is_admin(h) <=> ListedAdmin(h)
    /\ ~is_admin(None)

\* C18: no User record ever holds a negative point total
C18_PointsNonNegative == \A d \in Range(users) : d.points >= 0

\* C17: a text message a user sends in a chat where no /submit button was ever
\* posted, so that the user selected no challenge there, is not judged: it
\* inserts no Submission row and changes no point total, whatever the user
\* selected in another chat
C17_ContextPerChat ==
    [][\A u \in Users : \A c \in Chats : \A t \in FlagTexts :
          (offered[c] = {} /\ Deliver(TextUpdate(u, c, t)))
          => (submissions' = submissions /\ users' = users)]_vars

\* C15: a press on a detail button of a challenge that was deleted after
\* /viewchallenges listed it completes without raising, and shows either
\* 0 points with an empty link or a not-found message
C15_DetailNeverFails ==
    [][\A u \in Users : \A c \in Chats :
          \A d \in ButtonsOf(c, <<"d", "e", "t", "a", "i", "l">>) :
             (FindById(flags, Split(d, ":", 1)[2]) = {} /\ Deliver(CallbackUpdate(u, c, d)))
             => \/ reply'.kind = "not_found"
                \/ /\ reply'.kind = "details"
                   /\ reply'.points = 0
                   /\ reply'.link = <<>>]_vars

\* the ids of the users with a correct submission for the challenge
SolverIds(chal) ==
    {r.user_id : r \in {x \in Range(submissions) : x.challenge = chal /\ x.correct = TRUE}}

\* the time of the user's earliest correct submission for the challenge
EarliestCorrect(chal, id) ==
    LET stamps == {r.timestamp : r \in {x \in Range(submissions) :
                        x.challenge = chal /\ x.correct = TRUE /\ x.user_id = id}}
    IN CHOOSE t \in stamps : \A other \in stamps : t <= other

\* the names of the distinct solvers of the challenge, each once, by their
\* earliest correct submission
SolversByEarliest(chal) ==
    LET ids == SolverIds(chal)
        before(id) == {o \in ids : EarliestCorrect(chal, o) < EarliestCorrect(chal, id)}
    IN [k \in 1..Cardinality(ids) |->
           SolverName(CHOOSE id \in ids : Cardinality(before(id)) = k - 1)]

\* C19: the /bloods list shows for every challenge the number of distinct user
\* ids with a correct submission for it, and the solvers view of a challenge
\* lists exactly those users, each once, by earliest correct submission, the
\* first of them as the first blood
C19_BloodsConsistent ==
    [][\A u \in Users : \A c \in Chats :
          /\ (BloodsCmd(u, c) /\ reply'.kind = "bloods_list")
             => \A i \in 1..Len(reply'.buttons) :
                   reply'.buttons[i].solver_count
                      = Cardinality(SolverIds(reply'.buttons[i]._id))
          /\ (PressBloodsShow(u, c) /\ reply'.kind = "solvers")
             => reply'.solvers = SolversByEarliest(reply'.challenge)]_vars

\* the list a /leaderboard of the user produced last, <<>> when there is none
Ranking(u) == Get(user_data[u], "leaderboard_list")

\* C12: in the list produced by /leaderboard a user with more points ranks above
\* a user with fewer; on equal points the earlier last correct submission ranks
\* above, and a user without one ranks at or below every user that has one
C12_LeaderboardOrder ==
    \A u \in Users :
       Ranking(u) # None =>
          \A i \in 1..Len(Ranking(u)) : \A j \in 1..Len(Ranking(u)) :
             LET a == Ranking(u)[i]
                 b == Ranking(u)[j]
             IN i < j =>
                  /\ a.points >= b.points
                  /\ (a.points = b.points /\ HasStamp(a) /\ HasStamp(b))
                     => a.last_correct_submission <= b.last_correct_submission
                  /\ (a.points = b.points /\ HasStamp(b)) => HasStamp(a)

\* the lines of the given page of a ranking
PageOfRanking(all_users, page) ==
    Slice(LeaderboardItems(all_users), page * ITEMS_PER_PAGE,
          page * ITEMS_PER_PAGE + ITEMS_PER_PAGE)

\* whether the reply is a page that a page turn has put on a leaderboard message
TurnedPage(r) == r.kind = "leaderboard" /\ "attempts" \in DOMAIN r

\* C13: the ranking captured at a user's /leaderboard changes only when that
\* user sends /leaderboard again, and every page a page turn of the user shows
\* is the slice of that ranking, whatever the store holds by then
C13_SnapshotPagination ==
    [][/\ \A u \in Users :
             Ranking(u)' # Ranking(u) => \E c \in Chats : LeaderboardCmd(u, c)
       /\ TurnedPage(reply')
          => reply'.page_items = PageOfRanking(Ranking(reply'.user), reply'.page)]_vars

\* a page turn has shown a page of a ranking that no sort of the store gives
\* any more
C13_Witness ==
    /\ TurnedPage(reply)
    /\ \A flip \in BOOLEAN :
          reply.page_items
             \notin {PageOfRanking(SortedUsers(users, flip), p) : p \in 0..1}

\* every edit of the page turn times out
AllTimedOut == [i \in 1..4 |-> "TimedOut"]

\* C20: registering the command menu and editing the leaderboard message on a
\* page turn are attempted at most 3 times, and when every attempt times out
\* the handler ends without an error and leaves the message as it was
C20_BoundedRetry ==
    /\ \A outcomes \in [1..3 -> MenuOutcomes] :
          /\ on_startup(outcomes).attempts <= 3
          /\ (\A i \in 1..3 : outcomes[i] = "TimedOut")
             => (on_startup(outcomes).raised = None /\ ~on_startup(outcomes).registered)
    /\ [][\A u \in Users : \A c \in Chats : \A d \in ButtonsOf(c, <<"l", "e", "a", "d">>) :
             Deliver(NavUpdate(u, c, d, AllTimedOut))
             => (/\ reply'.kind \notin {"exception", "leaderboard_error"}
                 /\ "attempts" \in DOMAIN reply' => reply'.attempts <= 3)]_vars

\* the per-user state of b: the working context with its pagination snapshots
\* and authoring fields, and the authoring state in every chat
ContextOf(b) == <<user_data[b], [c \in Chats |-> conv[<<c, b>>]]>>

\* C16: an event of one user changes nothing in the context, the authoring
\* fields and state or the pagination snapshots of another user, and the row a
\* user's flag text inserts is judged against the challenge that user selected
C16_CrossUserIsolation ==
    [][/\ \A b \in Users : reply'.user # b => ContextOf(b)' = ContextOf(b)
       /\ Len(submissions') > Len(submissions)
          => LET row == submissions'[Len(submissions')] IN
             /\ row.user_id = reply'.user
             /\ row.challenge = Selected(row.user_id)
             /\ row.correct
                  = (\E d \in FindById(flags, Selected(row.user_id)) :
                        d.flag = row.submitted_flag)]_vars

\* a user's flag text has been judged while the other user had another
\* challenge selected, a snapshot taken and an authoring dialogue open
C16_Witness ==
    /\ reply.kind \in {"correct", "incorrect"}
    /\ \E a \in Users \ {reply.user} :
          /\ Selected(a) \notin {None, Selected(reply.user)}
          /\ Get(user_data[a], "bloods_list") # None
          /\ conv[<<GroupChat, a>>] = AF_NAME

\* whether the step appended exactly one Submission row, of the user for the
\* challenge, judged against that challenge's stored flag, and replied so
JudgedAgainst(u, chal) ==
    /\ Len(submissions') = Len(submissions) + 1
    /\ SubSeq(submissions', 1, Len(submissions)) = submissions
    /\ LET row == submissions'[Len(submissions')] IN
       /\ row.user_id = u
       /\ row.challenge = chal
       /\ row.correct = (\E d \in FindById(flags, chal) : d.flag = row.submitted_flag)
       /\ reply'.kind = IF row.correct THEN "correct" ELSE "incorrect"

\* C21: when a user has pressed the button of one challenge and then the button
\* of another, in whatever chats, and then sends a text, exactly one Submission
\* row is recorded for the text, naming the challenge pressed last and judged
\* against it
C21_LastWriteWins ==
    [][\A u \in Users : \A c \in Chats :
          (Len(PressedBy(u)) = 2 /\ TextAfterPresses(u, c))
          => JudgedAgainst(u, PressedBy(u)[2])]_vars

\* C21 for the store as it is when the text arrives: the text is judged against
\* the challenge pressed last if that challenge is still stored, and is
\* answered not-found, without a row, if it has been deleted since the press
C21_LastWriteWinsWhileStored ==
    [][\A u \in Users : \A c \in Chats :
          (Len(PressedBy(u)) = 2 /\ TextAfterPresses(u, c))
          => IF FindById(flags, PressedBy(u)[2]) # {}
             THEN JudgedAgainst(u, PressedBy(u)[2])
             ELSE submissions' = submissions /\ reply'.kind = "not_found"]_vars

\* a user pressed two different challenges and then sent a text that is the
\* flag of the second and not of the first, and it was judged correct
C21_Witness ==
    \E u \in Users :
       /\ TextSent(u)
       /\ Len(PressedBy(u)) = 2
       /\ PressedBy(u)[1] # PressedBy(u)[2]
       /\ reply = [kind |-> "correct", user |-> u]
       /\ submissions # <<>>
       /\ submissions[Len(submissions)].challenge = PressedBy(u)[2]
       /\ \A d \in FindById(flags, PressedBy(u)[1]) : d.flag # Strip(session[u].text)

\* the states of the authoring flow in which it waits for an answer
Awaiting == {AF_NAME, AF_POINTS, AF_LINK, AF_FLAG}

\* the texts users send: the answers of the authoring dialogue and flag texts
SentTexts == Range(Script) \cup FlagTexts

\* C22: a text message a user sends in a chat where that user's authoring flow
\* waits for an answer is handled by the authoring flow, inserts no Submission
\* row and changes no user's point total, even when that user has a challenge
\* selected
C22_FlowSeparation ==
    [][\A u \in Users : \A c \in Chats : \A t \in SentTexts :
          (conv[<<c, u>>] \in Awaiting /\ Deliver(TextUpdate(u, c, t)))
          => (/\ Route(Handlers, TextUpdate(u, c, t)).conversation
              /\ submissions' = submissions
              /\ \A v \in Users : PointsOf(v)' = PointsOf(v))]_vars

\* C23: every Submission row names a challenge that the Challenge collection
\* holds, in every state between two handlers
C23_ReferentialIntegrity ==
    \A r \in Range(submissions) : FindById(flags, r.challenge) # {}

\* a challenge has been deleted together with its Submission rows while rows
\* of another challenge remain
C23_Witness ==
    /\ Len(flags) < Len(InitialFlags)
    /\ Len(submissions) < clock
    /\ submissions # <<>>

====
